---------------------------- MODULE Spec2Model ----------------------------
(***************************************************************************)
(* Model of the user router (src/app/routers/user.js) and of the date      *)
(* utility (src/app/utils/date.js) of the explorastro API.                 *)
(*                                                                         *)
(* Strings that the program inspects character by character (URL path      *)
(* segments, date format patterns, formatted dates) are sequences of       *)
(* one-character strings.  The accented letters are written "a_grave",     *)
(* "e_acute" and "u_circ".                                                 *)
(***************************************************************************)
EXTENDS Integers, Sequences, FiniteSets, TLC

VARIABLES
    req,      \* router: slot -> the request it carries, or NoReq
    route,    \* router: slot -> index in Routes of the matched route, 0 if none
    pc,       \* router: slot -> "idle" | "chain" | "wait" | "handler" | "done"
    trace,    \* router: slot -> the steps that ran for the request, in order
    resp,     \* router: slot -> the responses sent for the request
    users,    \* data layer: id -> user record, for the ids that exist
    follows,  \* data layer: set of <<follower, followee>> edges
    hits,     \* rate limiters: <<limiter, caller id>> -> requests counted in the window
    windows,  \* rate limiters: number of windows elapsed
    mreq,     \* matching: the (method, path) under test
    mres,     \* matching: the phase, the routes that match, the route dispatched to
    clock,    \* date: the system clock, epoch milliseconds
    L,        \* date: dayjs's global locale name
    calls,    \* date: the successive getDate() calls: the value returned, and
              \*       whether the clock was set back since the call before
    stepped,  \* date: whether the clock was set back since the last getDate() call
    fin,      \* date: the last call of format: its inputs
    out       \* date: the last call of format: its result

vars == <<req, route, pc, trace, resp, users, follows, hits, windows,
          mreq, mres, clock, L, calls, stepped, fin, out>>

routerVars == <<req, route, pc, trace, resp, users, follows, hits, windows>>
matchVars == <<mreq, mres>>
dateVars == <<clock, L, calls, stepped, fin, out>>

-----------------------------------------------------------------------------
(* Characters and words *)

Digits == {"0", "1", "2", "3", "4", "5", "6", "7", "8", "9"}

\* String.prototype.toLowerCase on the letters the model uses in upper case.
Lower(c) ==
    CASE c = "S" -> "s" [] c = "E" -> "e" [] c = "A" -> "a" [] c = "R" -> "r"
      [] c = "C" -> "c" [] c = "H" -> "h" [] c = "F" -> "f" [] c = "U" -> "u"
      [] c = "P" -> "p" [] c = "D" -> "d" [] c = "T" -> "t" [] c = "G" -> "g"
      [] c = "B" -> "b"
      [] OTHER -> c

LowerStr(s) == [i \in 1..Len(s) |-> Lower(s[i])]

W_search == <<"s", "e", "a", "r", "c", "h">>
W_update == <<"u", "p", "d", "a", "t", "e">>
W_password == <<"p", "a", "s", "s", "w", "o", "r", "d">>
W_username == <<"u", "s", "e", "r", "n", "a", "m", "e">>
W_avatar == <<"a", "v", "a", "t", "a", "r">>
W_delete == <<"d", "e", "l", "e", "t", "e">>
W_follow == <<"f", "o", "l", "l", "o", "w">>
W_unfollow == <<"u", "n", "f", "o", "l", "l", "o", "w">>

-----------------------------------------------------------------------------
(* The route table: src/app/routers/user.js *)

\* Path pattern elements, one per path segment.
Lit(w) == [kind |-> "lit", text |-> w, name |-> ""]         \* a literal segment
NumParam(n) == [kind |-> "digits", text |-> <<>>, name |-> n]   \* :name(\d+)
Param(n) == [kind |-> "any", text |-> <<>>, name |-> n]      \* :name

RL_updateProfile == "rateLimit.updateProfile"
RL_updatePassword == "rateLimit.updatePassword"
RL_updateUsername == "rateLimit.updateUsername"
RL_updateAvatar == "rateLimit.updateAvatar"
CheckPermissions == "userMiddleware.checkPermissions"
CheckIfExists == "userMiddleware.checkIfExists"

Limiters == {RL_updateProfile, RL_updatePassword, RL_updateUsername, RL_updateAvatar}

RoutesRaw == <<
    [name |-> "GET /:id", method |-> "GET", pattern |-> <<NumParam("id")>>,
     chain |-> <<CheckIfExists>>,
     handler |-> "userController.getInformations"],
    [name |-> "GET /search", method |-> "GET", pattern |-> <<Lit(W_search)>>,
     chain |-> <<>>,
     handler |-> "searchController.searchUserByName"],
    [name |-> "PATCH /:id/update", method |-> "PATCH",
     pattern |-> <<NumParam("id"), Lit(W_update)>>,
     chain |-> <<RL_updateProfile, CheckPermissions, CheckIfExists>>,
     handler |-> "userController.update"],
    [name |-> "PATCH /:id/update/password", method |-> "PATCH",
     pattern |-> <<NumParam("id"), Lit(W_update), Lit(W_password)>>,
     chain |-> <<RL_updatePassword, CheckPermissions, CheckIfExists>>,
     handler |-> "userController.updatePassword"],
    [name |-> "PATCH /:id/update/username", method |-> "PATCH",
     pattern |-> <<NumParam("id"), Lit(W_update), Lit(W_username)>>,
     chain |-> <<RL_updateUsername, CheckPermissions, CheckIfExists>>,
     handler |-> "userController.updateUsername"],
    [name |-> "PUT /:id/update/avatar", method |-> "PUT",
     pattern |-> <<NumParam("id"), Lit(W_update), Lit(W_avatar)>>,
     chain |-> <<RL_updateAvatar, CheckPermissions, CheckIfExists>>,
     handler |-> "userController.updateAvatar"],
    [name |-> "DELETE /:id/delete", method |-> "DELETE",
     pattern |-> <<NumParam("id"), Lit(W_delete)>>,
     chain |-> <<CheckPermissions, CheckIfExists>>,
     handler |-> "userController.delete"],
    [name |-> "POST /:id/follow/:toFollowId", method |-> "POST",
     pattern |-> <<NumParam("id"), Lit(W_follow), NumParam("toFollowId")>>,
     chain |-> <<CheckPermissions, CheckIfExists>>,
     handler |-> "followController.follow"],
    [name |-> "DELETE /:id/unfollow/:toUnfollowId", method |-> "DELETE",
     pattern |-> <<NumParam("id"), Lit(W_unfollow), NumParam("toUnfollowId")>>,
     chain |-> <<CheckPermissions, CheckIfExists>>,
     handler |-> "followController.unfollow"]
>>

\* Faulty variants of the table, each one slip away from it.
\* GET /:id declared without its (\d+).
RoutesLooseId == [RoutesRaw EXCEPT ![1].pattern = <<Param("id")>>]
\* POST /:id/follow/:toFollowId declared without the second (\d+).
RoutesLooseFollow ==
    [RoutesRaw EXCEPT ![8].pattern = <<NumParam("id"), Lit(W_follow), Param("toFollowId")>>]
\* PATCH /:id/update with the permission check ahead of the rate limiter.
RoutesPermFirst ==
    [RoutesRaw EXCEPT ![3].chain = <<CheckPermissions, RL_updateProfile, CheckIfExists>>]
\* DELETE /:id/delete declared with no middleware.
RoutesBareDelete == [RoutesRaw EXCEPT ![7].chain = <<>>]
\* PATCH /:id/update declared without the permission check.
RoutesNoPermOnUpdate == [RoutesRaw EXCEPT ![3].chain = <<RL_updateProfile, CheckIfExists>>]
\* DELETE /:id/delete wired to the update handler.
RoutesDeleteCallsUpdate == [RoutesRaw EXCEPT ![7].handler = "userController.update"]
\* DELETE /:id/delete with the existence check ahead of the permission check.
RoutesExistsFirst == [RoutesRaw EXCEPT ![7].chain = <<CheckIfExists, CheckPermissions>>]

\* The table the router serves.
Routes == RoutesRaw

\* One segment against one pattern element.  path-to-regexp compiles the route
\* paths without the "sensitive" option, so literals compare case-insensitively;
\* (\d+) is one or more ASCII digits; a bare :name is one or more characters.
SegMatch(el, seg) ==
    CASE el.kind = "lit" -> LowerStr(seg) = LowerStr(el.text)
      [] el.kind = "digits" -> Len(seg) > 0 /\ \A i \in 1..Len(seg) : seg[i] \in Digits
      [] OTHER -> Len(seg) > 0

\* The method a route handles: a route declared with .get also takes HEAD.
HandlesMethod(r, m) == r.method = m \/ (m = "HEAD" /\ r.method = "GET")

\* Whether route r matches request q.  The compiled pattern is anchored at both
\* ends and, routing not being strict, allows one optional trailing slash.
Match(r, q) ==
    /\ HandlesMethod(r, q.method)
    /\ Len(q.path) = Len(r.pattern)
    /\ \A i \in 1..Len(r.pattern) : SegMatch(r.pattern[i], q.path[i])

MatchSet(q) == {i \in 1..Len(Routes) : Match(Routes[i], q)}

\* The router walks its layers in declaration order and dispatches to the first
\* one that matches; 0 when none does (the request leaves the router: 404).
FirstMatch(q) ==
    IF MatchSet(q) = {} THEN 0
    ELSE CHOOSE i \in MatchSet(q) : \A j \in MatchSet(q) : i <= j

-----------------------------------------------------------------------------
(* Route matching on its own: any method, any path *)

MaxIdLen == 2

Methods == {"GET", "HEAD", "POST", "PUT", "PATCH", "DELETE"}

\* Candidate id segments: every string of at most MaxIdLen characters over a
\* digit and a letter, the empty one included (two slashes in a row).
IdChars == {"4", "a"}
IdSegs == UNION {[1..n -> IdChars] : n \in 0..MaxIdLen}

Words == {W_search, W_update, W_password, W_username, W_avatar, W_delete,
          W_follow, W_unfollow, <<"S", "E", "A", "R", "C", "H">>}

Segs == IdSegs \cup Words

\* Paths of up to three segments (the longest pattern has three), and the
\* four-segment extensions of the paths under /<id>/update/.
AnyPaths ==
    UNION {[1..n -> Segs] : n \in 0..3}
      \cup {<<i, W_update, w, x>> : i \in IdSegs, w \in {W_password, W_avatar},
                                     x \in {W_password, <<"4">>}}

MatchInputs == [method : Methods, path : AnyPaths, slash : BOOLEAN]

MNoReq == [method |-> "", path |-> <<>>, slash |-> FALSE]

MInit ==
    /\ mreq = MNoReq
    /\ mres = [phase |-> "idle", set |-> {}, first |-> 0]

\* A request line reaches the router.
MReceive ==
    /\ mres.phase = "idle"
    /\ \E q \in MatchInputs : mreq' = q
    /\ mres' = [phase |-> "pending", set |-> {}, first |-> 0]
    /\ UNCHANGED <<routerVars, dateVars>>

\* The router resolves it: the routes that match, and the one dispatched to.
MResolve ==
    /\ mres.phase = "pending"
    /\ mres' = [phase |-> "resolved", set |-> MatchSet(mreq), first |-> FirstMatch(mreq)]
    /\ UNCHANGED <<mreq, routerVars, dateVars>>

\* The request is answered and the router is ready for the next one.
MDone ==
    /\ mres.phase = "resolved"
    /\ mreq' = MNoReq
    /\ mres' = [phase |-> "idle", set |-> {}, first |-> 0]
    /\ UNCHANGED <<routerVars, dateVars>>

MNext == MReceive \/ MResolve \/ MDone

-----------------------------------------------------------------------------
(* The collaborators the router wires together: the middlewares of          *)
(* ../middlewares and the handlers of ../controllers.                       *)

Slots == {"r1", "r2"}

Seg42 == <<"4", "2">>
Seg7 == <<"7">>
Seg99 == <<"9", "9">>

DigitVal(c) ==
    CASE c = "0" -> 0 [] c = "1" -> 1 [] c = "2" -> 2 [] c = "3" -> 3
      [] c = "4" -> 4 [] c = "5" -> 5 [] c = "6" -> 6 [] c = "7" -> 7
      [] c = "8" -> 8 [] OTHER -> 9

\* The number a digit segment denotes (req.params.id read as a number).
RECURSIVE ToNum(_)
ToNum(seg) ==
    IF Len(seg) = 0 THEN 0
    ELSE 10 * ToNum(SubSeq(seg, 1, Len(seg) - 1)) + DigitVal(seg[Len(seg)])

\* The authenticated callers (the identity is established upstream, from the
\* JWT): the owner of account 42, another plain user, and an administrator.
Callers == {[id |-> 42, admin |-> FALSE],
            [id |-> 99, admin |-> FALSE],
            [id |-> 1, admin |-> TRUE]}

\* What clients send to the account that exists: a method, a path, and any
\* subset of the body fields the operation knows.
EndpointsFor(t) == {
    [method |-> "GET", path |-> <<t>>, bodies |-> {{}}],
    [method |-> "PATCH", path |-> <<t, W_update>>, bodies |-> SUBSET {"bio"}],
    [method |-> "PATCH", path |-> <<t, W_update, W_password>>,
     bodies |-> SUBSET {"old_password", "new_password"}],
    [method |-> "PATCH", path |-> <<t, W_update, W_username>>,
     bodies |-> SUBSET {"username", "password"}],
    [method |-> "PUT", path |-> <<t, W_update, W_avatar>>, bodies |-> SUBSET {"file"}],
    [method |-> "DELETE", path |-> <<t, W_delete>>, bodies |-> SUBSET {"password"}],
    [method |-> "POST", path |-> <<t, W_follow, Seg99>>, bodies |-> {{}}],
    [method |-> "DELETE", path |-> <<t, W_unfollow, Seg99>>, bodies |-> {{}}] }

\* What clients send to an id that never existed: one request per shape of chain.
EndpointsAbsent(t) == {
    [method |-> "GET", path |-> <<t>>, bodies |-> {{}}],
    [method |-> "PATCH", path |-> <<t, W_update>>, bodies |-> {{"bio"}}],
    [method |-> "DELETE", path |-> <<t, W_delete>>, bodies |-> {{"password"}}] }

\* The search, and two requests no route takes.
EndpointsOther == {
    [method |-> "GET", path |-> <<W_search>>, bodies |-> {{}}],
    [method |-> "GET", path |-> <<<<"4", "a">>>>, bodies |-> {{}}],
    [method |-> "POST", path |-> <<Seg42, W_update>>, bodies |-> {{}}] }

Endpoints == EndpointsFor(Seg42) \cup EndpointsAbsent(Seg7) \cup EndpointsOther

Requests ==
    UNION {[method : {e.method}, path : {e.path}, slash : {FALSE},
            caller : Callers, body : e.bodies] : e \in Endpoints}

NoReq == [method |-> "", path |-> <<>>, slash |-> FALSE,
          caller |-> [id |-> 0, admin |-> FALSE], body |-> {}]

NoUser == [bio |-> "", username |-> "", password |-> "", avatar |-> ""]
User0 == [bio |-> "old bio", username |-> "old", password |-> "old", avatar |-> "old"]

\* The accounts that exist at the start.
InitialUsers == (42 :> User0) @@ (99 :> User0)

\* Responses.
Ok(u) == [status |-> 200, kind |-> "OK", user |-> u]
Err(code, k) == [status |-> code, kind |-> k, user |-> NoUser]

\* req.params.id
TargetId(q) == ToNum(q.path[1])

\* Requests a limiter lets through per caller and window.
RateLimitMax == 1

\* rateLimit.*: counts the caller's request in the current window, and rejects
\* it once the caller has used the window's allowance.
LimiterPasses(m, q, h) == h[<<m, q.caller.id>>] < RateLimitMax

\* userMiddleware.checkPermissions: the caller acts on their own account, or
\* holds an elevated role.
PermissionPasses(q) == q.caller.id = TargetId(q) \/ q.caller.admin

\* userMiddleware.checkIfExists: the target id resolves to a live record.
ExistsPasses(q, us) == TargetId(q) \in DOMAIN us

\* The body fields a handler requires.
Required(h) ==
    CASE h = "userController.updatePassword" -> {"old_password", "new_password"}
      [] h = "userController.updateUsername" -> {"username", "password"}
      [] h = "userController.delete" -> {"password"}
      [] h = "userController.updateAvatar" -> {"file"}
      [] OTHER -> {}

\* The record of user id, or NoUser (the handler found no record).
Rec(us, id) == IF id \in DOMAIN us THEN us[id] ELSE NoUser

\* A handler: validates the body, then performs its operation on the data
\* layer and answers 200.  Returns the response and the new data layer.
Handle(h, q, us, fs) ==
    LET id == TargetId(q)
        upd(f, v) == [i \in DOMAIN us |-> IF i = id THEN [us[i] EXCEPT ![f] = v] ELSE us[i]]
        same(r) == [resp |-> r, users |-> us, follows |-> fs]
    IN  IF ~(Required(h) \subseteq q.body)
          THEN same(Err(400, "ValidationError"))
        ELSE CASE h = "userController.getInformations" -> same(Ok(Rec(us, id)))
          [] h = "searchController.searchUserByName" -> same(Ok(NoUser))
          [] h = "userController.update" ->
               LET us2 == IF "bio" \in q.body THEN upd("bio", "new bio") ELSE us
               IN  [resp |-> Ok(Rec(us2, id)), users |-> us2, follows |-> fs]
          [] h = "userController.updatePassword" ->
               [resp |-> Ok(NoUser), users |-> upd("password", "new"), follows |-> fs]
          [] h = "userController.updateUsername" ->
               [resp |-> Ok(NoUser), users |-> upd("username", "new"), follows |-> fs]
          [] h = "userController.updateAvatar" ->
               [resp |-> Ok(NoUser), users |-> upd("avatar", "new"), follows |-> fs]
          [] h = "userController.delete" ->
               [resp |-> Ok(NoUser),
                users |-> [i \in DOMAIN us \ {id} |-> us[i]],
                follows |-> {e \in fs : e[1] # id /\ e[2] # id}]
          [] h = "followController.follow" ->
               [resp |-> Ok(NoUser), users |-> us,
                follows |-> fs \cup {<<id, ToNum(q.path[3])>>}]
          [] OTHER ->
               [resp |-> Ok(NoUser), users |-> us,
                follows |-> fs \ {<<id, ToNum(q.path[3])>>}]

-----------------------------------------------------------------------------
(* The router at work: requests in flight, each walking its route's chain *)

MaxWindows == 1

HitKeys == Limiters \X {c.id : c \in Callers}

\* A router that keeps the chain being walked in one place for all requests.
ChainOfShared(s) ==
    IF route["r1"] # 0 THEN Routes[route["r1"]].chain ELSE Routes[route[s]].chain

\* The chain and the handler of the route a slot's request was dispatched to.
ChainOf(s) == Routes[route[s]].chain
HandlerOf(s) == Routes[route[s]].handler

\* Where a request goes once i steps of its chain have passed.
After(chain, i) == IF i < Len(chain) THEN "chain" ELSE "handler"

\* A request reaches the router, which dispatches it to the first route that
\* matches, or lets it fall through (404) when none does.
Arrive(s) ==
    /\ pc[s] = "idle"
    /\ \E q \in Requests :
         /\ req' = [req EXCEPT ![s] = q]
         /\ route' = [route EXCEPT ![s] = FirstMatch(q)]
         /\ IF FirstMatch(q) = 0
              THEN /\ pc' = [pc EXCEPT ![s] = "done"]
                   /\ resp' = [resp EXCEPT ![s] = <<Err(404, "NoRoute")>>]
              ELSE /\ pc' = [pc EXCEPT ![s] = After(Routes[FirstMatch(q)].chain, 0)]
                   /\ UNCHANGED resp
    /\ UNCHANGED <<trace, users, follows, hits, windows, matchVars, dateVars>>

\* The step of the chain that is next for slot s.
NextMw(s) == ChainOf(s)[Len(trace[s]) + 1]

\* A middleware passed: it calls next().
Pass(s, m) ==
    /\ trace' = [trace EXCEPT ![s] = Append(@, [step |-> m, ok |-> TRUE])]
    /\ pc' = [pc EXCEPT ![s] = After(ChainOf(s), Len(trace[s]) + 1)]
    /\ UNCHANGED resp

\* A middleware failed: it answers with its error and does not call next().
Fail(s, m, e) ==
    /\ trace' = [trace EXCEPT ![s] = Append(@, [step |-> m, ok |-> FALSE])]
    /\ pc' = [pc EXCEPT ![s] = "done"]
    /\ resp' = [resp EXCEPT ![s] = Append(@, e)]

RunLimiter(s) ==
    /\ pc[s] = "chain"
    /\ NextMw(s) \in Limiters
    /\ IF LimiterPasses(NextMw(s), req[s], hits)
         THEN /\ hits' = [hits EXCEPT ![<<NextMw(s), req[s].caller.id>>] = @ + 1]
              /\ Pass(s, NextMw(s))
         ELSE /\ Fail(s, NextMw(s), Err(429, "RateLimited"))
              /\ UNCHANGED hits
    /\ UNCHANGED <<req, route, users, follows, windows, matchVars, dateVars>>

RunPermissions(s) ==
    /\ pc[s] = "chain"
    /\ NextMw(s) = CheckPermissions
    /\ IF PermissionPasses(req[s])
         THEN Pass(s, CheckPermissions)
         ELSE Fail(s, CheckPermissions, Err(403, "Forbidden"))
    /\ UNCHANGED <<req, route, users, follows, hits, windows, matchVars, dateVars>>

\* The existence check queries the data layer and suspends until the answer.
BeginExists(s) ==
    /\ pc[s] = "chain"
    /\ NextMw(s) = CheckIfExists
    /\ pc' = [pc EXCEPT ![s] = "wait"]
    /\ UNCHANGED <<req, route, trace, resp, users, follows, hits, windows, matchVars, dateVars>>

ResumeExists(s) ==
    /\ pc[s] = "wait"
    /\ IF ExistsPasses(req[s], users)
         THEN Pass(s, CheckIfExists)
         ELSE Fail(s, CheckIfExists, Err(404, "NotFound"))
    /\ UNCHANGED <<req, route, users, follows, hits, windows, matchVars, dateVars>>

\* The chain has passed: the handler runs and answers.
RunHandler(s) ==
    /\ pc[s] = "handler"
    /\ LET r == Handle(HandlerOf(s), req[s], users, follows)
       IN  /\ trace' = [trace EXCEPT ![s] =
                          Append(@, [step |-> HandlerOf(s), ok |-> r.resp.status = 200])]
           /\ resp' = [resp EXCEPT ![s] = Append(@, r.resp)]
           /\ users' = r.users
           /\ follows' = r.follows
    /\ pc' = [pc EXCEPT ![s] = "done"]
    /\ UNCHANGED <<req, route, hits, windows, matchVars, dateVars>>

\* The rate limiters' window elapses: the counts start again.
WindowExpire ==
    /\ windows < MaxWindows
    /\ \E k \in HitKeys : hits[k] > 0
    /\ hits' = [k \in HitKeys |-> 0]
    /\ windows' = windows + 1
    /\ UNCHANGED <<req, route, pc, trace, resp, users, follows, matchVars, dateVars>>

Next ==
    \/ \E s \in Slots : Arrive(s)
    \/ \E s \in Slots : RunLimiter(s)
    \/ \E s \in Slots : RunPermissions(s)
    \/ \E s \in Slots : BeginExists(s)
    \/ \E s \in Slots : ResumeExists(s)
    \/ \E s \in Slots : RunHandler(s)
    \/ WindowExpire

-----------------------------------------------------------------------------
(* The date utility: src/app/utils/date.js *)

\* dayjs's built-in English locale: weekdays, from Sunday.
EnWeekdays == <<
    <<"S", "u", "n", "d", "a", "y">>,
    <<"M", "o", "n", "d", "a", "y">>,
    <<"T", "u", "e", "s", "d", "a", "y">>,
    <<"W", "e", "d", "n", "e", "s", "d", "a", "y">>,
    <<"T", "h", "u", "r", "s", "d", "a", "y">>,
    <<"F", "r", "i", "d", "a", "y">>,
    <<"S", "a", "t", "u", "r", "d", "a", "y">> >>

\* dayjs's built-in English locale: months.
EnMonths == <<
    <<"J", "a", "n", "u", "a", "r", "y">>,
    <<"F", "e", "b", "r", "u", "a", "r", "y">>,
    <<"M", "a", "r", "c", "h">>,
    <<"A", "p", "r", "i", "l">>,
    <<"M", "a", "y">>,
    <<"J", "u", "n", "e">>,
    <<"J", "u", "l", "y">>,
    <<"A", "u", "g", "u", "s", "t">>,
    <<"S", "e", "p", "t", "e", "m", "b", "e", "r">>,
    <<"O", "c", "t", "o", "b", "e", "r">>,
    <<"N", "o", "v", "e", "m", "b", "e", "r">>,
    <<"D", "e", "c", "e", "m", "b", "e", "r">> >>

\* dayjs/locale/fr: weekdays, from dimanche.
FrWeekdays == <<
    <<"d", "i", "m", "a", "n", "c", "h", "e">>,
    <<"l", "u", "n", "d", "i">>,
    <<"m", "a", "r", "d", "i">>,
    <<"m", "e", "r", "c", "r", "e", "d", "i">>,
    <<"j", "e", "u", "d", "i">>,
    <<"v", "e", "n", "d", "r", "e", "d", "i">>,
    <<"s", "a", "m", "e", "d", "i">> >>

\* dayjs/locale/fr: months.
FrMonths == <<
    <<"j", "a", "n", "v", "i", "e", "r">>,
    <<"f", "e_acute", "v", "r", "i", "e", "r">>,
    <<"m", "a", "r", "s">>,
    <<"a", "v", "r", "i", "l">>,
    <<"m", "a", "i">>,
    <<"j", "u", "i", "n">>,
    <<"j", "u", "i", "l", "l", "e", "t">>,
    <<"a", "o", "u_circ", "t">>,
    <<"s", "e", "p", "t", "e", "m", "b", "r", "e">>,
    <<"o", "c", "t", "o", "b", "r", "e">>,
    <<"n", "o", "v", "e", "m", "b", "r", "e">>,
    <<"d", "e_acute", "c", "e", "m", "b", "r", "e">> >>

LocEn == <<"e", "n">>
LocFr == <<"f", "r">>

\* The locales loaded when the module is: the built-in one and require('dayjs/locale/fr').
Loaded == {LocEn, LocFr}

\* The French pattern typed with a plain "a" (which dayjs reads as the am/pm token).
PatternFrPlainA == <<"d", "d", "d", "d", " ", "D", "D", " ", "M", "M", "M", "M", " ", "Y", "Y", "Y", "Y", " ", "a", " ", "H", "H", ":", "m", "m">>

\* The two patterns handed to dayjs's format.
PatternFr == <<"d", "d", "d", "d", " ", "D", "D", " ", "M", "M", "M", "M", " ", "Y", "Y", "Y", "Y", " ", "a_grave", " ", "H", "H", ":", "m", "m">>
PatternDefault == <<"d", "d", "d", "d", " ", "D", "D", " ", "M", "M", "M", "M", " ", "Y", "Y", "Y", "Y", ",", " ", "h", "h", ":", "m", "m", " ", "A">>

\* A moment is given in minutes since the epoch: the patterns show nothing finer.
\* The calendar fields of a moment (UTC), as the Date getters give them.
Fields(t) ==
    LET days == t \div 1440
        rem == t % 1440
        z == days + 719468
        era == z \div 146097
        doe == z - era * 146097
        yoe == (doe - doe \div 1460 + doe \div 36524 - doe \div 146096) \div 365
        doy == doe - (365 * yoe + yoe \div 4 - yoe \div 100)
        mp == (5 * doy + 2) \div 153
        mo == IF mp < 10 THEN mp + 3 ELSE mp - 9
    IN  [y |-> yoe + era * 400 + (IF mo <= 2 THEN 1 ELSE 0),
         M |-> mo - 1,
         D |-> doy - (153 * mp + 2) \div 5 + 1,
         W |-> (days + 4) % 7,
         H |-> rem \div 60,
         m |-> rem % 60]

DigitChar(k) ==
    CASE k = 0 -> "0" [] k = 1 -> "1" [] k = 2 -> "2" [] k = 3 -> "3"
      [] k = 4 -> "4" [] k = 5 -> "5" [] k = 6 -> "6" [] k = 7 -> "7"
      [] k = 8 -> "8" [] OTHER -> "9"

\* String(n) for n >= 0.
RECURSIVE NumStr(_)
NumStr(n) == IF n < 10 THEN <<DigitChar(n)>> ELSE Append(NumStr(n \div 10), DigitChar(n % 10))

\* Utils.s: padStart with "0" to the given length.
RECURSIVE PadStart(_, _)
PadStart(str, len) == IF Len(str) >= len THEN str ELSE PadStart(<<"0">> \o str, len)

\* The default meridiem function.
Meridiem(hour, isLowercase) ==
    IF hour < 12
      THEN (IF isLowercase THEN <<"a", "m">> ELSE <<"A", "M">>)
      ELSE (IF isLowercase THEN <<"p", "m">> ELSE <<"P", "M">>)

\* The longest run of character c in pat from position i, at most max long.
RECURSIVE Run(_, _, _, _)
Run(pat, i, c, max) ==
    IF max = 0 \/ i > Len(pat) \/ pat[i] # c THEN 0 ELSE 1 + Run(pat, i + 1, c, max - 1)

\* The longest token REGEX_FORMAT matches at a position, by its first letter:
\* Y{1,4} M{1,4} D{1,2} d{1,4} H{1,2} h{1,2} a A m{1,2} s{1,2} Z{1,2}; 0 for a
\* character that starts no token.
TokenMax(c) ==
    CASE c \in {"Y", "M", "d"} -> 4
      [] c \in {"D", "H", "h", "m", "s", "Z"} -> 2
      [] c \in {"a", "A"} -> 1
      [] OTHER -> 0

\* What format substitutes for the token made of n letters c.
TokenValue(c, n, f, loc) ==
    LET wd == IF loc = LocFr THEN FrWeekdays ELSE EnWeekdays
        mo == IF loc = LocFr THEN FrMonths ELSE EnMonths
        h12 == IF f.H % 12 = 0 THEN 12 ELSE f.H % 12
        zone == <<"+", "0", "0", ":", "0", "0">>
    IN  CASE c = "Y" /\ n = 4 -> PadStart(NumStr(f.y), 4)
          [] c = "Y" /\ n = 2 -> SubSeq(NumStr(f.y), Len(NumStr(f.y)) - 1, Len(NumStr(f.y)))
          [] c = "M" /\ n = 4 -> mo[f.M + 1]
          [] c = "M" /\ n = 3 -> SubSeq(mo[f.M + 1], 1, 3)
          [] c = "M" /\ n <= 2 -> PadStart(NumStr(f.M + 1), n)
          [] c = "D" -> PadStart(NumStr(f.D), n)
          [] c = "d" /\ n = 4 -> wd[f.W + 1]
          [] c = "d" /\ n = 3 -> SubSeq(wd[f.W + 1], 1, 3)
          [] c = "d" /\ n = 2 -> SubSeq(wd[f.W + 1], 1, 2)
          [] c = "d" -> NumStr(f.W)
          [] c = "H" -> PadStart(NumStr(f.H), n)
          [] c = "h" -> PadStart(NumStr(h12), n)
          [] c = "a" -> Meridiem(f.H, TRUE)
          [] c = "A" -> Meridiem(f.H, FALSE)
          [] c = "m" -> PadStart(NumStr(f.m), n)
          [] c = "s" -> PadStart(<<"0">>, n)
          [] c = "Z" /\ n = 1 -> zone
          [] OTHER -> <<"+", "0", "0", "0", "0">>

\* Dayjs.prototype.format: every token of the pattern replaced by its value,
\* every other character kept (neither pattern has a [bracketed] escape).
RECURSIVE FormatFrom(_, _, _, _)
FormatFrom(pat, i, f, loc) ==
    IF i > Len(pat) THEN <<>>
    ELSE LET n == Run(pat, i, pat[i], TokenMax(pat[i]))
         IN  IF n = 0
               THEN <<pat[i]>> \o FormatFrom(pat, i + 1, f, loc)
               ELSE TokenValue(pat[i], n, f, loc) \o FormatFrom(pat, i + n, f, loc)

\* The part of str before its first "-" (preset.split('-')[0]).
RECURSIVE BeforeDash(_)
BeforeDash(str) ==
    IF Len(str) = 0 \/ str[1] = "-" THEN <<>> ELSE <<str[1]>> \o BeforeDash(Tail(str))

HasDash(str) == \E i \in 1..Len(str) : str[i] = "-"

\* dayjs(date).locale(preset), preset a non-empty string: the locale of the
\* resulting instance and dayjs's global locale afterwards.  A loaded name is
\* taken (lower-cased).  Otherwise a name with a "-" is looked up by its first
\* part, through the global setter: a loaded first part becomes the global
\* locale too.  Otherwise the instance keeps the global locale it was made with.
SetLocale(preset, g) ==
    LET low == LowerStr(preset)
        head == LowerStr(BeforeDash(preset))
    IN  IF low \in Loaded THEN [loc |-> low, global |-> g]
        ELSE IF HasDash(preset) /\ head \in Loaded THEN [loc |-> head, global |-> head]
        ELSE [loc |-> g, global |-> g]

\* The pattern format picks for a language.
PatternFor(language) == IF language = LocFr THEN PatternFr ELSE PatternDefault

\* format(date, language): the string returned, and the global locale afterwards.
format(date, language, g) ==
    LET set == SetLocale(language, g)
    IN  [str |-> FormatFrom(PatternFor(language), 1, Fields(date), set.loc),
         global |-> set.global]

\* new Date().getMilliseconds() in place of Date.now().
getMilliseconds(now) == now % 1000

\* getDate(): Date.now(), the system clock.
getDate(now) == now

-----------------------------------------------------------------------------
(* The date utility at work *)

MaxTimes == 24
MaxTicks == 4
MaxCalls == 2

\* The moments format is called on: from 2022-01-01T00:00Z (27349920 minutes
\* after the epoch), one every 31 days, 7 hours and 13 minutes, so that they
\* fall in every month, on every weekday, and on both sides of noon.
TimeInputs == {27349920 + k * 45073 : k \in 0..(MaxTimes - 1)}

Languages == {LocFr, LocEn, <<"F", "R">>, <<"f", "r", "-", "C", "A">>,
              <<"d", "e">>, <<"d", "e", "-", "A", "T">>}

NoCall == [date |-> 0, language |-> <<>>, global |-> <<>>]

DInit ==
    /\ clock = 1
    /\ L = LocEn
    /\ calls = <<>>
    /\ stepped = FALSE
    /\ fin = NoCall
    /\ out = <<>>

\* Time passes: the clock advances by 400 ms.
Tick ==
    /\ clock < 400 * MaxTicks
    /\ clock' = clock + 400
    /\ UNCHANGED <<L, calls, stepped, fin, out, routerVars, matchVars>>

\* The system clock is set back (an NTP step, an operator's correction).
ClockSetBack ==
    /\ \E k \in 1..MaxTicks : clock - 400 * k >= 0 /\ clock' = clock - 400 * k
    /\ stepped' = TRUE
    /\ UNCHANGED <<L, calls, fin, out, routerVars, matchVars>>

CallGetDate ==
    /\ Len(calls) < MaxCalls
    /\ calls' = Append(calls, [t |-> getDate(clock), back |-> stepped])
    /\ stepped' = FALSE
    /\ UNCHANGED <<clock, L, fin, out, routerVars, matchVars>>

CallFormat ==
    /\ \E d \in TimeInputs, lang \in Languages :
         /\ fin' = [date |-> d, language |-> lang, global |-> L]
         /\ LET r == format(d, lang, L)
            IN  out' = r.str /\ L' = r.global
    /\ UNCHANGED <<clock, calls, stepped, routerVars, matchVars>>

FNext == CallFormat

CNext == Tick \/ ClockSetBack \/ CallGetDate

-----------------------------------------------------------------------------
(* Specifications *)

RouterInit ==
    /\ req = [s \in Slots |-> NoReq]
    /\ route = [s \in Slots |-> 0]
    /\ pc = [s \in Slots |-> "idle"]
    /\ trace = [s \in Slots |-> <<>>]
    /\ resp = [s \in Slots |-> <<>>]
    /\ users = InitialUsers
    /\ follows = {}
    /\ hits = [k \in HitKeys |-> 0]
    /\ windows = 0

Init == RouterInit /\ MInit /\ DInit

\* The router serving requests.
Spec == Init /\ [][Next]_vars

\* Route matching over any method and path.
SpecMatch == Init /\ [][MNext]_vars

\* format, called on any moment in any language.
SpecFormat == Init /\ [][FNext]_vars

\* getDate, called as the system clock moves.
SpecClock == Init /\ [][CNext]_vars

-----------------------------------------------------------------------------
(* Properties: route matching *)

IsNumeric(seg) == Len(seg) > 0 /\ \A i \in 1..Len(seg) : seg[i] \in Digits

Resolved == mres.phase = "resolved"

\* The names of the routes that match the request under test.
MatchedNames == {Routes[i].name : i \in mres.set}

IdRouteNames == {Routes[i].name : i \in 1..Len(Routes)} \ {"GET /search"}

IsGet == mreq.method \in {"GET", "HEAD"}

\* GET /<seg>
OneSegGet == IsGet /\ Len(mreq.path) = 1

\* <method> /<a>/<word>/<b>, the word in any letter case
TwoIds(method, word) ==
    /\ mreq.method = method
    /\ Len(mreq.path) = 3
    /\ LowerStr(mreq.path[2]) = word

FollowShape == TwoIds("POST", W_follow)
UnfollowShape == TwoIds("DELETE", W_unfollow)

\* A route with id parameters matches only when every id segment is numeric.
IdRoutesNeedDigits ==
    \A i \in mres.set : \A k \in 1..Len(Routes[i].pattern) :
        Routes[i].pattern[k].kind # "lit" => IsNumeric(mreq.path[k])

\* Follow and unfollow match exactly when both segments are numeric.
FollowNeedsBoth ==
    /\ FollowShape =>
         (("POST /:id/follow/:toFollowId" \in MatchedNames)
            <=> (IsNumeric(mreq.path[1]) /\ IsNumeric(mreq.path[3])))
    /\ UnfollowShape =>
         (("DELETE /:id/unfollow/:toUnfollowId" \in MatchedNames)
            <=> (IsNumeric(mreq.path[1]) /\ IsNumeric(mreq.path[3])))

\* Route r has id parameters, and the request has r's method, r's number of
\* segments and r's words (in any letter case), whatever stands where r has ids.
ShapedLike(r, q) ==
    /\ r.name \in IdRouteNames
    /\ (r.method = q.method \/ (r.method = "GET" /\ q.method = "HEAD"))
    /\ Len(q.path) = Len(r.pattern)
    /\ \A k \in 1..Len(r.pattern) :
         r.pattern[k].kind = "lit" => LowerStr(q.path[k]) = r.pattern[k].text

\* The request has a non-numeric segment in the place of an id.
NonNumericId ==
    \E i \in 1..Len(Routes) :
        /\ ShapedLike(Routes[i], mreq)
        /\ \E k \in 1..Len(Routes[i].pattern) :
             Routes[i].pattern[k].kind # "lit" /\ ~IsNumeric(mreq.path[k])

IsSearch == IsGet /\ Len(mreq.path) = 1 /\ LowerStr(mreq.path[1]) = W_search

\* C3, as stated: GET /n matches the detail route for every numeric n; with a
\* non-numeric segment in the place of an id no route matches at all (404);
\* follow and unfollow match exactly when both their segments are numeric.
C3_NonNumericIdIs404 ==
    Resolved =>
      /\ IdRoutesNeedDigits
      /\ FollowNeedsBoth
      /\ OneSegGet /\ IsNumeric(mreq.path[1]) =>
           mres.first # 0 /\ Routes[mres.first].name = "GET /:id"
      /\ NonNumericId => mres.set = {}

\* C3, amended: as above, except that with a non-numeric segment in the place
\* of an id no route with id parameters matches, and no route at all matches
\* unless the request is GET /search (in any letter case), which the search
\* route takes.
C3_NonNumericIdMatchesNoIdRoute ==
    Resolved =>
      /\ IdRoutesNeedDigits
      /\ FollowNeedsBoth
      /\ OneSegGet /\ IsNumeric(mreq.path[1]) =>
           mres.first # 0 /\ Routes[mres.first].name = "GET /:id"
      /\ NonNumericId =>
           /\ MatchedNames \cap IdRouteNames = {}
           /\ mres.set # {} <=> IsSearch
           /\ IsSearch => MatchedNames = {"GET /search"}

\* A follow request whose second id is not numeric has been resolved to no route.
C3_Witness ==
    /\ Resolved
    /\ FollowShape
    /\ IsNumeric(mreq.path[1])
    /\ ~IsNumeric(mreq.path[3])
    /\ mreq.path[3] # <<>>
    /\ mres.first = 0

\* C10: a request matches at most one route; GET /search is dispatched to the
\* search handler, not to the GET /:id route declared before it; no path
\* matches both DELETE routes.
C10_AtMostOneRouteMatches ==
    Resolved =>
      /\ Cardinality(mres.set) <= 1
      /\ (IsGet /\ mreq.path = <<W_search>>) =>
           /\ mres.first # 0
           /\ Routes[mres.first].handler = "searchController.searchUserByName"
      /\ ~({"DELETE /:id/delete", "DELETE /:id/unfollow/:toUnfollowId"} \subseteq MatchedNames)

\* GET /search has been resolved, to the search route alone.
C10_Witness ==
    /\ Resolved
    /\ mreq.method = "GET"
    /\ mreq.path = <<W_search>>
    /\ MatchedNames = {"GET /search"}

-----------------------------------------------------------------------------
(* Properties: the date utility *)

Contains(str, c) == \E i \in 1..Len(str) : str[i] = c

\* An AM/PM marker: "AM" or "PM" somewhere in the string.
HasMeridiemMarker(str) ==
    \E i \in 1..(Len(str) - 1) : str[i] \in {"A", "P"} /\ str[i + 1] = "M"

Formatted == fin # NoCall

C8_GetDateNonDecreasing ==
    \A i \in 2..Len(calls) :
        calls[i].t \in Int /\ calls[i - 1].t \in Int /\ calls[i].t >= calls[i - 1].t

\* C8, amended: the same, provided the system clock was not set back between
\* the two calls.
C8_GetDateNonDecreasingUnlessSetBack ==
    \A i \in 2..Len(calls) :
        /\ calls[i].t \in Int /\ calls[i - 1].t \in Int
        /\ ~calls[i].back => calls[i].t >= calls[i - 1].t

\* Two calls with time passing and no set-back between them: the second is later.
C8_Witness ==
    /\ Len(calls) = 2
    /\ ~calls[2].back
    /\ calls[2].t > calls[1].t

-----------------------------------------------------------------------------
(* Properties: the router serving requests *)

\* The route table of the specification: the row a request falls under, by its
\* method and the words of its path, and the row's chain and handler.
TableRoute(q) ==
    CASE q.method = "GET" /\ q.path = <<W_search>> -> "GET /search"
      [] q.method = "GET" /\ Len(q.path) = 1 /\ q.path # <<W_search>> -> "GET /:id"
      [] q.method = "PATCH" /\ Len(q.path) = 2 -> "PATCH /:id/update"
      [] q.method = "PATCH" /\ Len(q.path) = 3 /\ q.path[3] = W_password ->
           "PATCH /:id/update/password"
      [] q.method = "PATCH" /\ Len(q.path) = 3 /\ q.path[3] = W_username ->
           "PATCH /:id/update/username"
      [] q.method = "PUT" -> "PUT /:id/update/avatar"
      [] q.method = "DELETE" /\ Len(q.path) = 2 -> "DELETE /:id/delete"
      [] q.method = "POST" -> "POST /:id/follow/:toFollowId"
      [] OTHER -> "DELETE /:id/unfollow/:toUnfollowId"

UpdateRows == {"PATCH /:id/update", "PATCH /:id/update/password",
               "PATCH /:id/update/username", "PUT /:id/update/avatar"}

TableLimiter(row) ==
    CASE row = "PATCH /:id/update" -> RL_updateProfile
      [] row = "PATCH /:id/update/password" -> RL_updatePassword
      [] row = "PATCH /:id/update/username" -> RL_updateUsername
      [] OTHER -> RL_updateAvatar

TableChain(row) ==
    CASE row \in UpdateRows -> <<TableLimiter(row), CheckPermissions, CheckIfExists>>
      [] row = "GET /:id" -> <<CheckIfExists>>
      [] row = "GET /search" -> <<>>
      [] OTHER -> <<CheckPermissions, CheckIfExists>>

TableHandler(row) ==
    CASE row = "GET /:id" -> "userController.getInformations"
      [] row = "GET /search" -> "searchController.searchUserByName"
      [] row = "PATCH /:id/update" -> "userController.update"
      [] row = "PATCH /:id/update/password" -> "userController.updatePassword"
      [] row = "PATCH /:id/update/username" -> "userController.updateUsername"
      [] row = "PUT /:id/update/avatar" -> "userController.updateAvatar"
      [] row = "DELETE /:id/delete" -> "userController.delete"
      [] row = "POST /:id/follow/:toFollowId" -> "followController.follow"
      [] OTHER -> "followController.unfollow"

TableSteps(row) == Append(TableChain(row), TableHandler(row))

\* The body fields the specification requires, by row.
TableRequired(row) ==
    CASE row = "PATCH /:id/update/password" -> {"old_password", "new_password"}
      [] row = "PATCH /:id/update/username" -> {"username", "password"}
      [] row = "DELETE /:id/delete" -> {"password"}
      [] OTHER -> {}

Names(tr) == [i \in 1..Len(tr) |-> tr[i].step]
IsPrefix(a, b) == Len(a) <= Len(b) /\ a = SubSeq(b, 1, Len(a))

Dispatched(s) == route[s] # 0
Done(s) == pc[s] = "done"
Row(s) == TableRoute(req[s])
Ran(s, m) == \E i \in 1..Len(trace[s]) : trace[s][i].step = m
Passed(s, m) == \E i \in 1..Len(trace[s]) : trace[s][i] = [step |-> m, ok |-> TRUE]
Failed(s, m) == \E i \in 1..Len(trace[s]) : trace[s][i] = [step |-> m, ok |-> FALSE]
ChainPassed(s) == \A k \in 1..Len(TableChain(Row(s))) : Passed(s, TableChain(Row(s))[k])
Status(s) == resp[s][1].status
Kind(s) == resp[s][1].kind

\* Slot s takes a step in this transition.
Acts(s) == trace'[s] # trace[s] \/ pc'[s] # pc[s]

\* C1: the steps that run for a request are, in order, its row's middlewares
\* and then its handler; once the handler has run the request is over.
C1_ChainOrderAsInTable ==
    \A s \in Slots : Dispatched(s) =>
        /\ IsPrefix(Names(trace[s]), TableSteps(Row(s)))
        /\ Ran(s, TableHandler(Row(s))) =>
             /\ Names(trace[s]) = TableSteps(Row(s))
             /\ Done(s)
        /\ pc[s] = "handler" => Names(trace[s]) = TableChain(Row(s))
        /\ pc[s] \in {"chain", "wait"} => Len(trace[s]) < Len(TableChain(Row(s)))

\* An avatar update has gone through limiter, permission check, existence
\* check and handler.
C1_Witness ==
    \E s \in Slots :
        /\ Done(s)
        /\ Dispatched(s)
        /\ Row(s) = "PUT /:id/update/avatar"
        /\ Names(trace[s]) = <<RL_updateAvatar, CheckPermissions, CheckIfExists,
                               "userController.updateAvatar">>

C2_State ==
    \A s \in Slots :
        /\ Len(resp[s]) <= 1
        /\ Done(s) <=> Len(resp[s]) = 1
        /\ Dispatched(s) =>
             /\ Ran(s, TableHandler(Row(s))) => ChainPassed(s)
             /\ pc[s] = "handler" => ChainPassed(s)
             /\ \A i \in 1..Len(trace[s]) :
                  (trace[s][i].step # TableHandler(Row(s)) /\ ~trace[s][i].ok) =>
                      /\ i = Len(trace[s])
                      /\ Done(s)
                      /\ Status(s) # 200
             /\ \A i, j \in 1..Len(trace[s]) :
                  i # j => trace[s][i].step # trace[s][j].step

C2_Step ==
    (users' # users \/ follows' # follows) =>
        \E s \in Slots :
            /\ Dispatched(s)
            /\ ChainPassed(s)
            /\ trace'[s] = Append(trace[s], [step |-> TableHandler(Row(s)), ok |-> TRUE])

\* C2: the handler runs, and the data layer changes, only once every
\* middleware of the row has passed; a failed middleware is the last step of
\* the request, which then ends with one error response; no step runs twice.
C2_HandlerOnlyAfterChainPassed == [] C2_State /\ [][C2_Step]_vars

\* A request was stopped by the second of its three middlewares.
C2_Witness ==
    \E s \in Slots :
        /\ Done(s)
        /\ Dispatched(s)
        /\ Len(TableChain(Row(s))) = 3
        /\ Len(trace[s]) = 2
        /\ ~trace[s][2].ok
        /\ resp[s] = <<Err(403, "Forbidden")>>

\* PATCH /42/update with body { bio }, sent by the plain user c.
Scenario(s, c) ==
    /\ req[s].method = "PATCH"
    /\ req[s].path = <<Seg42, W_update>>
    /\ req[s].body = {"bio"}
    /\ req[s].caller = [id |-> c, admin |-> FALSE]

C4_State ==
    \A s \in Slots :
        /\ Scenario(s, 42) /\ Done(s) =>
             IF Failed(s, RL_updateProfile) THEN Status(s) = 429
             ELSE IF Failed(s, CheckIfExists) THEN Status(s) = 404
             ELSE Status(s) = 200 /\ Ran(s, "userController.update")
        /\ Scenario(s, 99) =>
             /\ ~Ran(s, "userController.update")
             /\ pc[s] # "handler"
             /\ Done(s) =>
                  IF Failed(s, RL_updateProfile) THEN Status(s) = 429
                  ELSE Status(s) = 403 /\ Kind(s) = "Forbidden"

C4_Step ==
    \A s \in Slots :
        /\ (Scenario(s, 42) /\ pc[s] = "handler" /\ Acts(s) /\ 42 \in DOMAIN users) =>
             /\ users' = [users EXCEPT ![42].bio = "new bio"]
             /\ resp'[s] = <<Ok(users'[42])>>
        /\ (Scenario(s, 99) /\ Acts(s)) => users' = users

\* C4: sent by user 42 the request gets past the permission check, and with
\* user 42 existing and the caller within the rate limit it ends with 200 and
\* the user with the new bio; sent by user 99 (within the rate limit) it ends
\* with 403 Forbidden, the update handler never runs and no step of the
\* request changes a user record.
C4_OwnerUpdatesOthersForbidden == [] C4_State /\ [][C4_Step]_vars

\* Both requests have been served: 200 with the new bio for 42, 403 for 99.
C4_Witness ==
    \E s, t \in Slots :
        /\ Scenario(s, 42) /\ Done(s) /\ Status(s) = 200
        /\ resp[s][1].user.bio = "new bio"
        /\ Scenario(t, 99) /\ Done(t) /\ Status(t) = 403

Missing(s) == Dispatched(s) /\ ~(TableRequired(Row(s)) \subseteq req[s].body)

C5_NotPerformed ==
    \A s \in Slots : (Missing(s) /\ Acts(s)) => (users' = users /\ follows' = follows)

C5_UpdateTakesAnySubset ==
    \A s \in Slots :
        (Done(s) /\ Dispatched(s) /\ Row(s) = "PATCH /:id/update" /\ ChainPassed(s)) =>
            Status(s) = 200

\* C5, as stated: a request missing a required body field ends with a
\* validation error, and its operation is not performed; PATCH /:id/update is
\* accepted with any subset of its fields.
C5_MissingFieldIsValidationError ==
    /\ [] (\A s \in Slots : (Done(s) /\ Missing(s)) => Kind(s) = "ValidationError")
    /\ [] C5_UpdateTakesAnySubset
    /\ [][C5_NotPerformed]_vars

\* C5, amended: a request missing a required body field is rejected and its
\* operation is not performed; the error is the validation error when the
\* route's middlewares have all passed, and otherwise the error of the
\* middleware that failed; PATCH /:id/update is accepted with any subset of its
\* fields once its middlewares have passed.
C5_MissingFieldIsRejected ==
    /\ [] (\A s \in Slots : (Done(s) /\ Missing(s)) =>
             /\ Status(s) # 200
             /\ IF ChainPassed(s)
                  THEN Kind(s) = "ValidationError"
                  ELSE Kind(s) \in {"RateLimited", "Forbidden", "NotFound"})
    /\ [] C5_UpdateTakesAnySubset
    /\ [][C5_NotPerformed]_vars

\* A password change without new_password got through the middlewares and
\* was refused by the handler; the password is the old one.
C5_Witness ==
    \E s \in Slots :
        /\ Done(s)
        /\ Dispatched(s)
        /\ Row(s) = "PATCH /:id/update/password"
        /\ req[s].body = {"old_password"}
        /\ ChainPassed(s)
        /\ resp[s] = <<Err(400, "ValidationError")>>
        /\ users[42].password = "old"

\* What a request goes through when it is the only one the server ever gets.
RECURSIVE AloneFrom(_, _, _)
AloneFrom(q, r, i) ==
    IF i > Len(r.chain)
      THEN <<[step |-> r.handler,
              ok |-> Handle(r.handler, q, InitialUsers, {}).resp.status = 200]>>
    ELSE LET m == r.chain[i]
             ok == CASE m \in Limiters -> TRUE
                     [] m = CheckPermissions -> PermissionPasses(q)
                     [] OTHER -> ExistsPasses(q, InitialUsers)
         IN  <<[step |-> m, ok |-> ok]>> \o (IF ok THEN AloneFrom(q, r, i + 1) ELSE <<>>)

AloneTrace(q) == AloneFrom(q, Routes[FirstMatch(q)], 1)

InFlight(s) == pc[s] \in {"chain", "wait", "handler"}

StepOf(s) ==
    \/ Arrive(s) \/ RunLimiter(s) \/ RunPermissions(s)
    \/ BeginExists(s) \/ ResumeExists(s) \/ RunHandler(s)

C7_State ==
    \A s \in Slots :
        /\ Dispatched(s) =>
             /\ route[s] = FirstMatch(req[s])
             /\ IsPrefix(Names(trace[s]),
                         Append(Routes[route[s]].chain, Routes[route[s]].handler))
             /\ pc[s] = "wait" => Len(trace[s]) < Len(Routes[route[s]].chain)
                                  /\ Routes[route[s]].chain[Len(trace[s]) + 1] = CheckIfExists
        /\ pc[s] = "wait" => \A t \in Slots \ {s} : ~Done(t) => ENABLED StepOf(t)

C7_OneStepAtATime ==
    \A s \in Slots :
        \/ trace'[s] = trace[s]
        \/ /\ Len(trace'[s]) = Len(trace[s]) + 1
           /\ SubSeq(trace'[s], 1, Len(trace[s])) = trace[s]
           /\ \A t \in Slots \ {s} : trace'[t] = trace[t] /\ pc'[t] = pc[t]

C7_AsAlone ==
    \A s \in Slots :
        (Dispatched(s) /\ ~Done(s) /\ pc'[s] = "done" /\ \E t \in Slots \ {s} : InFlight(t)) =>
            trace'[s] = AloneTrace(req[s])

\* C7, as stated: the steps of a request run one at a time in their chain
\* order, a request waiting on the existence lookup does not keep the others
\* from progressing, and a request that ends while another is in flight has
\* gone through the very steps it goes through alone.
C7_SameStepsAsAlone ==
    [] C7_State /\ [][C7_OneStepAtATime]_vars /\ [][C7_AsAlone]_vars

\* C7, amended: the steps of a request run one at a time and are, in order,
\* steps of its own route's chain and then its handler (the route it is
\* dispatched to alone); a request waiting on the existence lookup does not
\* keep the others from progressing.  How far along its chain a request gets
\* is not claimed to be what it is alone.
C7_OwnChainInOrderNoBlocking ==
    [] C7_State /\ [][C7_OneStepAtATime]_vars

\* One request waits on the existence lookup while the other, which arrived
\* later, has already been through two steps.
C7_Witness ==
    \E s, t \in Slots :
        /\ s # t
        /\ pc[s] = "wait"
        /\ trace[s] = <<>>
        /\ InFlight(t)
        /\ Len(trace[t]) = 2

\* Whether the specification's permission rule lets the caller act on the
\* target: their own account, or an elevated role.
CallerMay(q) ==
    \/ q.caller.admin
    \/ q.path[1] = Seg42 /\ q.caller.id = 42
    \/ q.path[1] = Seg7 /\ q.caller.id = 7

ErrorOf(m) ==
    CASE m \in Limiters -> "RateLimited"
      [] m = CheckPermissions -> "Forbidden"
      [] m = CheckIfExists -> "NotFound"
      [] OTHER -> "ValidationError"

C9_State ==
    \A s \in Slots : Dispatched(s) =>
        /\ \A i \in 1..Len(trace[s]) :
             ~trace[s][i].ok => Done(s) /\ Kind(s) = ErrorOf(trace[s][i].step)
        /\ Row(s) \in UpdateRows =>
             /\ trace[s] # <<>> => trace[s][1].step = TableLimiter(Row(s))
             /\ Ran(s, CheckPermissions) => Passed(s, TableLimiter(Row(s)))
        /\ (Done(s) /\ CheckPermissions \in {TableChain(Row(s))[k] : k \in 1..Len(TableChain(Row(s)))}
              /\ ~CallerMay(req[s])) =>
             Kind(s) \in {"Forbidden"} \cup (IF Row(s) \in UpdateRows THEN {"RateLimited"} ELSE {})

C9_Counted ==
    \A s \in Slots :
        (Dispatched(s) /\ Row(s) \in UpdateRows /\ trace[s] = <<>>
           /\ trace'[s] = <<[step |-> TableLimiter(Row(s)), ok |-> TRUE]>>) =>
            hits'[<<TableLimiter(Row(s)), req[s].caller.id>>]
              = hits[<<TableLimiter(Row(s)), req[s].caller.id>>] + 1

\* C9: the error a request ends with is that of the first check that fails;
\* on the update routes the limiter runs first and counts the request before
\* the permission check runs, and a caller over the limit gets the rate-limit
\* error whatever else is wrong; a caller without permission never gets
\* NotFound, even for an id that does not exist.
C9_FirstFailingCheckDecides == [] C9_State /\ [][C9_Counted]_vars

\* User 99 has sent PATCH /7/update twice (no such user, not theirs): the
\* first was counted and ended Forbidden, the second ended RateLimited.
C9_Witness ==
    \E s, t \in Slots :
        /\ s # t
        /\ req[s] = req[t]
        /\ req[s].path = <<Seg7, W_update>>
        /\ req[s].caller = [id |-> 99, admin |-> FALSE]
        /\ resp[s] = <<Err(403, "Forbidden")>>
        /\ resp[t] = <<Err(429, "RateLimited")>>
        /\ 7 \notin DOMAIN users

=============================================================================
